---- MODULE Spec2Model ----
(***************************************************************************)
(* Model of the scheduled execution engine of fufuhub:                     *)
(*   server/src/services/taskScheduler.js  (TaskScheduler)                 *)
(*   server/src/services/apiService.js     (APIService, response classes)  *)
(*                                                                         *)
(* Time is counted in ticks of 60/TicksPerHour minutes.  Every handler is  *)
(* one action that runs from one await to the next; a store command takes  *)
(* effect when it is issued (one connection, commands served in order).    *)
(***************************************************************************)
EXTENDS Integers, Sequences, FiniteSets, TLC

\* ---------------------------------------------------------------- bounds
TicksPerHour == 2       \* clock resolution
ClockTicks == 12        \* ticks the clock runs after the scheduler is built
MaxStarts == 2          \* start() calls that register a daily job
MaxUsers == 2           \* accounts in config:users
SchedUsers == 1         \* accounts in config:users of a scheduler workload
MaxTasks == 2           \* tasks in a fetched list (account workloads)
MaxTickets == 3         \* lottery_num reported by the remote service (draw workloads)
MaxFaults == 4          \* failing remote replies in an account workload
BatchFaults == 4        \* failing remote replies in a batch workload
SchedFaults == 1        \* failing remote replies in a scheduler workload
MaxAdds == 4            \* addSystemLog calls in a log workload
MaxPending == 2         \* addSystemLog calls in flight at a time
MaxRequests == 1        \* requests to the API routes in a route workload
EventFaults == 2        \* failing remote replies in an event workload
RouteFaults == 2         \* failing remote replies in a route workload
DeleteFaults == 1        \* failing remote replies in a removal workload

\* ------------------------------------------------------ program constants
TriggerHour == 8                     \* { hour: 8, minute: 0 }
SecondDelayHours == 4                \* 4 * 60 * 60 * 1000 ms
RandomWindowHours == 1               \* Math.random() * 60 * 60 * 1000 ms
HoursPerDay == 24
RefreshRetries == 3                  \* refreshUserToken(user, retries = 3)
BackoffMs == 2000                    \* waitTime = attempt * 2000
LogCap == 100                        \* if (logArray.length > 100)
TOKEN_EXPIRED == 3584901             \* ERROR_CODES.TOKEN_EXPIRED
SUCCESS == 0                         \* ERROR_CODES.SUCCESS
PARAM_ERROR == 3584002               \* ERROR_CODES.PARAM_ERROR

DayTicks == HoursPerDay * TicksPerHour
TriggerTick == TriggerHour * TicksPerHour
FourHours == SecondDelayHours * TicksPerHour
RandomDelays == 0 .. (RandomWindowHours * TicksPerHour - 1)
StartTick == TriggerTick - 1
MaxClock == StartTick + ClockTicks

JobNames == {"dailyExecution", "secondExecution"}
NoJob == 0
NoToken == 0
Uids == 1 .. MaxUsers

\* ------------------------------------------------------------- variables
VARIABLES
  isRunning,    \* TaskScheduler.isRunning
  jobs,         \* TaskScheduler.jobs: job name -> handle (NoJob = absent)
  handles,      \* every node-schedule Job created so far
  timeouts,     \* pending setTimeout callbacks of the delayed first run
  atStop,       \* for each of them, whether a stop() was called since it
                \* was set
  now,          \* the clock
  batch,        \* the batch loop of a fired first/second execution
  run,          \* the executeDailySignIn call the batch loop awaits
  configUsers,  \* store key config:users
  userStore,    \* store keys user:<uid>
  tasksStore,   \* store keys tasks:<uid>
  fetchedAt,    \* store keys tasks:<uid>:fetchedAt (whether they exist)
  completed,    \* store keys task:<uid>:<taskId>:completed
  remote,       \* the remote service: task lists, tickets, tokens issued
  faults,       \* failing replies the remote service may still give
  calls,        \* remote calls issued by the latest step
  logs,         \* addSystemLog invocations of the latest step
  events,       \* broadcastToClients invocations of the latest step
  op,           \* the handler that made the latest step
  overlap,      \* a batch was fired while another one was executing
  wsClients,    \* index.js: the WebSocket client events are broadcast to
  sysLog,       \* store key system:logs, the addSystemLog calls in flight
                \* (FIFO), the calls made so far and before the workload
  manual        \* the request an API route is serving

schedVars == <<isRunning, jobs, handles, timeouts, atStop, now>>
storeVars == <<configUsers, userStore, tasksStore, fetchedAt, completed>>
outVars == <<calls, logs, events>>
sideVars == <<wsClients, sysLog, manual>>
vars == <<isRunning, jobs, handles, timeouts, atStop, now, batch, run, configUsers,
          userStore, tasksStore, fetchedAt, completed, remote, faults, calls,
          logs,
          events, op, overlap, wsClients, sysLog, manual>>

\* --------------------------------------------------------------- helpers
Log(type, tag) == [type |-> type, tag |-> tag]

Range(s) == {s[i] : i \in 1 .. Len(s)}

RemoveAt(s, i) == [k \in 1 .. (Len(s) - 1) |-> IF k < i THEN s[k] ELSE s[k + 1]]

NumDaily(hs) == Cardinality({h \in 1 .. Len(hs) : hs[h].kind = "daily"})

\* node-schedule: the next invocation of { hour: 8, minute: 0 } strictly
\* after time t
NextTrigger(t) ==
  IF t % DayTicks < TriggerTick
    THEN (t \div DayTicks) * DayTicks + TriggerTick
    ELSE (t \div DayTicks + 1) * DayTicks + TriggerTick

IdleBatch == [phase |-> "idle", exec |-> 0, users |-> <<>>, i |-> 0,
              started |-> <<>>]

\* the locals of one executeDailySignIn call:
\*   pc         the await the call is suspended at
\*   got        the reply its latest await of a remote call resolved with
\*   tok        userData.token
\*   tasks, j   the fetched list and the position of the task loop
\*   lot, k     lotteryNum and the draw in progress (i + 1)
\*   retry      the call in flight is the retry of its call site
\*   refs       refreshUserToken invocations of the call site so far
\*   caught     the Error whose catch block invoked refreshUserToken
\*   site       the caller refreshUserToken returns to
\*   att, snap, lastError, wait   refreshUserToken: attempt, the record
\*              read by getUserData, lastError, the backoff being waited
\*   err        the Error that left a call site in the latest step
IdleRun == [pc |-> "none", uid |-> 0, tok |-> NoToken, tasks |-> <<>>,
            j |-> 0, lot |-> 0, k |-> 0, site |-> "none", retry |-> FALSE,
            att |-> 0, snap |-> [present |-> FALSE, token |-> NoToken],
            err |-> "none", fetched |-> FALSE,
            classified |-> {}, attempted |-> {}, failed |-> {},
            deferred |-> {}, got |-> "none", refs |-> 0, caught |-> "none",
            lastError |-> "none", wait |-> 0]

\* no addSystemLog call in flight, nothing under system:logs
EmptyLog == [stored |-> <<>>, pending |-> <<>>, seq |-> 0, base |-> 0]

\* the locals of the API route serving a request:
\*   pc         the await the handler is suspended at
\*   route      the route of the latest request
\*   snap       the record the handler (or refreshUserToken) read
\*   reply, tok the checklogin answer on its way back, the token in it
\*   retry, att, lastError   as in an executeDailySignIn call
\*   status     the HTTP status of the response sent in the latest step
\*   n          requests received so far
\*   users      the list the delete route read from config:users
IdleManual == [pc |-> "none", route |-> "none", uid |-> 0, task |-> 0,
               tok |-> NoToken,
               snap |-> [present |-> FALSE, token |-> NoToken],
               reply |-> "none", retry |-> FALSE, att |-> 0,
               lastError |-> "none", status |-> 0, n |-> 0, users |-> <<>>]

\* ------------------------------------------------------- TaskScheduler
\* scheduleDailyExecution(): registers the recurring 8:00 job
ScheduleDailyExecution(hs, t) ==
  Append(hs, [kind |-> "daily", at |-> NextTrigger(t), live |-> TRUE])

\* fourHoursLater = new Date(Date.now() + 4 * 60 * 60 * 1000)
FourHoursLaterFromTrigger(t) ==
  (t \div DayTicks) * DayTicks + TriggerTick + FourHours
FourHoursLater(t) == t + FourHours

\* scheduleSecondExecution(): registers the one-shot job
ScheduleSecondExecution(hs, t) ==
  Append(hs, [kind |-> "second", at |-> FourHoursLater(t), live |-> TRUE])

\* start(): returns early when already running
StartNoGuard(running) == FALSE
StartReturnsEarly(running) == running

Start ==
  /\ op' = "start"
  /\ IF StartReturnsEarly(isRunning)
       THEN /\ logs' = <<>>
            /\ UNCHANGED <<isRunning, jobs, handles>>
       ELSE /\ NumDaily(handles) < MaxStarts
            /\ isRunning' = TRUE
            /\ logs' = <<Log("success", "started")>>
            /\ handles' = ScheduleDailyExecution(handles, now)
            /\ jobs' = [jobs EXCEPT !["dailyExecution"] = Len(handles')]
  /\ calls' = <<>> /\ events' = <<>>
  /\ UNCHANGED <<timeouts, atStop, now, batch, run, storeVars, remote, faults,
                 overlap>>
  /\ UNCHANGED sideVars

\* stop(): job.cancel() for every job of the map, then jobs.clear()
CancelNone(hs, js) == hs
CancelAll(hs, js) ==
  [h \in 1 .. Len(hs) |->
     IF \E n \in JobNames : js[n] = h THEN [hs[h] EXCEPT !.live = FALSE]
                                       ELSE hs[h]]

\* this.isRunning = false
FlagToggledByStop(running) == ~running
FlagAfterStop(running) == FALSE

\* a stop() that directly follows a stop() is told apart in op
StopLabel(last) == IF last \in {"stop", "stopAgain"} THEN "stopAgain" ELSE "stop"
StopLabels == {"stop", "stopAgain"}

\* stop() has no handle of a setTimeout either: the pending ones stay,
\* each now pending since before a stop()
TimersAfterStop(marks) == [i \in 1 .. Len(marks) |-> TRUE]

\* stop() has no reference to the executeDailySignIn call a callback is
\* awaiting: the call keeps its position
StopCancelsRun(r) == IF r.pc = "none" THEN r ELSE [r EXCEPT !.pc = "done"]
StopLeavesRun(r) == r

Stop ==
  /\ op' = StopLabel(op)
  /\ isRunning' = FlagAfterStop(isRunning)
  /\ handles' = CancelAll(handles, jobs)
  /\ jobs' = [n \in JobNames |-> NoJob]
  /\ run' = StopLeavesRun(run)
  /\ logs' = <<Log("warning", "stopped")>>
  /\ calls' = <<>> /\ events' = <<>>
  /\ atStop' = TimersAfterStop(atStop)
  /\ UNCHANGED <<timeouts, now, batch, storeVars, remote, faults, overlap>>
  /\ UNCHANGED sideVars

\* a timer that is due fires before the clock moves on
Due(hs, ts, t) ==
  \/ \E h \in 1 .. Len(hs) : hs[h].live /\ hs[h].at <= t
  \/ \E i \in 1 .. Len(ts) : ts[i] <= t

Tick ==
  /\ now < MaxClock
  /\ ~Due(handles, timeouts, now)
  /\ now' = now + 1
  /\ op' = "tick"
  /\ calls' = <<>> /\ logs' = <<>> /\ events' = <<>>
  /\ UNCHANGED <<isRunning, jobs, handles, timeouts, atStop, batch, run, storeVars,
                 remote, faults, overlap>>
  /\ UNCHANGED sideVars

\* the callbacks check the flag before doing any work
SkipNever(running) == FALSE
SkipWhenStopped(running) == ~running

\* the 8:00 job fires: defers the execution by a random delay
DailyFire(h) ==
  /\ handles[h].kind = "daily" /\ handles[h].live /\ handles[h].at <= now
  /\ op' = "dailyFire"
  /\ handles' = [handles EXCEPT ![h].at = NextTrigger(now)]
  /\ IF SkipWhenStopped(isRunning)
       THEN UNCHANGED <<timeouts, atStop>>
       ELSE /\ \E randomDelay \in RandomDelays :
                 timeouts' = Append(timeouts, now + randomDelay)
            /\ atStop' = Append(atStop, FALSE)
  /\ calls' = <<>> /\ logs' = <<>> /\ events' = <<>>
  /\ UNCHANGED <<isRunning, jobs, now, batch, run, storeVars, remote, faults,
                 overlap>>
  /\ UNCHANGED sideVars

\* a fired callback that passed the flag check awaits loadUsers()
BeginBatch(n) ==
  IF batch.phase = "idle"
    THEN /\ batch' = [IdleBatch EXCEPT !.phase = "load", !.exec = n]
         /\ UNCHANGED overlap
    ELSE /\ overlap' = TRUE
         /\ UNCHANGED batch

\* the setTimeout callback of the delayed first run
FirstRunFire(i) ==
  /\ timeouts[i] <= now
  /\ op' = "firstRunFire"
  /\ timeouts' = RemoveAt(timeouts, i)
  /\ atStop' = RemoveAt(atStop, i)
  /\ IF SkipWhenStopped(isRunning)
       THEN UNCHANGED <<batch, overlap>>
       ELSE BeginBatch(1)
  /\ calls' = <<>> /\ logs' = <<>> /\ events' = <<>>
  /\ UNCHANGED <<isRunning, jobs, handles, now, run, storeVars, remote, faults>>
  /\ UNCHANGED sideVars

\* the one-shot job of scheduleSecondExecution fires
SecondFire(h) ==
  /\ handles[h].kind = "second" /\ handles[h].live /\ handles[h].at <= now
  /\ op' = "secondFire"
  /\ handles' = [handles EXCEPT ![h].live = FALSE]
  /\ IF SkipWhenStopped(isRunning)
       THEN UNCHANGED <<batch, overlap>>
       ELSE BeginBatch(2)
  /\ calls' = <<>> /\ logs' = <<>> /\ events' = <<>>
  /\ UNCHANGED <<isRunning, jobs, timeouts, atStop, now, run, storeVars, remote,
                 faults>>
  /\ UNCHANGED sideVars

\* ---------------------------------------------------------- APIService
\* what the remote service may answer: 0, the expired-token code, another
\* non-zero code, or nothing at all (network error / 30 s timeout)
Replies(f) == IF f > 0 THEN {"ok", "expired", "apierr", "transport"}
                       ELSE {"ok"}

\* checklogin may also answer code 0 with an empty token
LoginReplies(f) == IF f > 0 THEN Replies(f) \cup {"empty"} ELSE Replies(f)

Code(reply) == CASE reply \in {"ok", "empty"} -> SUCCESS
                 [] reply = "expired" -> TOKEN_EXPIRED
                 [] OTHER -> PARAM_ERROR

\* getUserInfo / getActivityTasks / drawPrize: body on code 0, otherwise
\* throw; the result is "ok" or the class of the Error thrown
FetchResult(reply) ==
  IF reply = "transport" THEN "Transport"
  ELSE IF Code(reply) = SUCCESS THEN "ok"
  ELSE IF Code(reply) = TOKEN_EXPIRED THEN "TOKEN_EXPIRED"
  ELSE "ApiError"

\* completeTask: any non-zero code except TOKEN_EXPIRED returns the body
CompleteResultStrict(reply) == FetchResult(reply)
CompleteResult(reply) ==
  IF reply = "transport" THEN "Transport"
  ELSE IF Code(reply) = SUCCESS THEN "ok"
  ELSE IF Code(reply) = TOKEN_EXPIRED THEN "TOKEN_EXPIRED"
  ELSE "ok"

\* checkLogin: body on code 0, every other code throws 'API Error: ...'
LoginResult(reply) ==
  IF reply = "transport" THEN "Transport"
  ELSE IF Code(reply) = SUCCESS THEN "ok"
  ELSE "ApiError"

\* loginResult.token: a fresh token, or the empty one
LoginToken(reply, issued) == IF reply = "empty" THEN NoToken ELSE issued + 1

Call(name, uid, tok, task) ==
  [name |-> name, uid |-> uid, tok |-> tok, task |-> task]

\* ------------------------------------------------------------ task data
Nil == 0 - 1    \* a field the remote service left out

\* task.task_value || 0
OrZero(v) == IF v = Nil THEN 0 ELSE v

Task(type, value, target) == [type |-> type, value |-> value, target |-> target]

TaskKinds == {Task(1, 0, 1), Task(2, 1, 1), Task(2, 0, 1), Task(2, 1, 0),
              Task(2, Nil, Nil), Task(3, 0, 0), Task(4, 1, 1)}

TaskListsUpTo(n) == UNION {[1 .. k -> TaskKinds] : k \in 0 .. n}

\* processDailyTask: the branch taken for a task
ClassifySignInByProgress(task) ==
  IF task.type = 3 THEN "Skip"
  ELSE IF task.type \in {1, 2}
    THEN IF OrZero(task.value) >= OrZero(task.target) THEN "CompleteNow"
                                                      ELSE "Defer"
  ELSE "Unknown"
ClassifyStrictlyGreater(task) ==
  IF task.type = 3 THEN "Skip"
  ELSE IF task.type = 1 THEN "CompleteNow"
  ELSE IF task.type = 2
    THEN IF OrZero(task.value) > OrZero(task.target) THEN "CompleteNow"
                                                     ELSE "Defer"
  ELSE "Unknown"
ClassifyUnknownAsSignIn(task) ==
  IF task.type = 3 THEN "Skip"
  ELSE IF task.type = 2
    THEN IF OrZero(task.value) >= OrZero(task.target) THEN "CompleteNow"
                                                      ELSE "Defer"
  ELSE "CompleteNow"
Classify(task) ==
  IF task.type = 3 THEN "Skip"
  ELSE IF task.type = 1 THEN "CompleteNow"
  ELSE IF task.type = 2
    THEN IF OrZero(task.value) >= OrZero(task.target) THEN "CompleteNow"
                                                      ELSE "Defer"
  ELSE "Unknown"

\* --------------------------------------------------- executeDailySignIn
\* Every operator below yields what a handler does up to its next await:
\* the new position of the run, the remote call it issues, its
\* addSystemLog and broadcastToClients invocations.
Out(r, c, l, e) == [run |-> r, calls |-> c, logs |-> l, events |-> e]

\* refreshUserToken, start of an attempt: getUserData, then checkLogin
\* with the token of the record just read
RefreshAttemptFromMemory(r, site, att) ==
  Out([r EXCEPT !.pc = "login", !.site = site, !.att = att, !.wait = 0,
                !.snap = [present |-> TRUE, token |-> r.tok]],
      <<Call("checkLogin", r.uid, r.tok, 0)>>, <<>>, <<>>)
RefreshAttempt(r, site, att) ==
  Out([r EXCEPT !.pc = "login", !.site = site, !.att = att, !.wait = 0,
                !.snap = userStore[r.uid]],
      <<Call("checkLogin", r.uid, userStore[r.uid].token, 0)>>, <<>>, <<>>)

\* this.refreshUserToken(user), invoked by `site` (in its catch of err)
RefreshUserToken(r, site, err) ==
  RefreshAttempt([r EXCEPT !.caught = err, !.refs = r.refs + 1], site, 1)

\* a remote operation is invoked by a call site: its first attempt, or
\* the retry that follows the refresh
AtSite(r, pc, retry) ==
  [r EXCEPT !.pc = pc, !.retry = retry, !.err = "none",
            !.refs = IF retry THEN r.refs ELSE 0]

IssueTasks1(r, retry, l) ==
  Out(AtSite(r, "tasks1", retry),
      <<Call("getActivityTasks", r.uid, r.tok, 0)>>, l, <<>>)

IssueInfo1(r, retry, l, e) ==
  Out(AtSite(r, "info1", retry),
      <<Call("getUserInfo", r.uid, r.tok, 0)>>, l, e)

\* addSystemLog of the draw loop: the message names the draw
DrawLog(type, tag, i) == [type |-> type, tag |-> tag, i |-> i]

IssueDraw(r, k, l) ==
  Out([AtSite(r, "draw", FALSE) EXCEPT !.k = k],
      <<Call("drawPrize", r.uid, r.tok, 0)>>,
      l \o <<DrawLog("info", "drawing", k)>>, <<>>)

IssueInfo2(r, retry, l) ==
  Out(AtSite(r, "info2", retry),
      <<Call("getUserInfo", r.uid, r.tok, 0)>>, l, <<>>)

IssueTasks2(r, retry) ==
  Out(AtSite(r, "tasks2", retry),
      <<Call("getActivityTasks", r.uid, r.tok, 0)>>, <<>>, <<>>)

\* completeTaskCall: the call carries the token it is given
IssueComplete(r, tok, retry, l) ==
  Out([AtSite(r, "comp", retry) EXCEPT !.attempted = r.attempted \cup {r.j}],
      <<Call("completeTask", r.uid, tok, r.j)>>, l, <<>>)

\* the locals of a call site and of refreshUserToken go out of scope
Leave(r) == [r EXCEPT !.site = "none", !.att = 0, !.retry = FALSE,
                      !.snap = IdleRun.snap, !.refs = 0, !.caught = "none",
                      !.lastError = "none", !.wait = 0]

\* for (const task of tasks): on to position j of the list (the draw
\* loop, if any, is over)
ToTask(r, j, l) ==
  Out([Leave(r) EXCEPT !.pc = "task", !.j = j, !.lot = 0, !.k = 0,
                       !.err = "none"],
      <<>>, l, <<>>)

\* the catch block of executeDailySignIn reads execLabel, a const of the
\* try block: evaluating it throws ReferenceError out of the method
CatchLogsAndReturns(err) == "done"
TopLevelCatch(err) == "threw"

Thrown(r, err, l) ==
  Out([Leave(r) EXCEPT !.pc = TopLevelCatch(err), !.err = err], <<>>, l, <<>>)

Done(r, l, e) ==
  Out([Leave(r) EXCEPT !.pc = "done", !.err = "none"], <<>>, l, e)

\* processDailyTask's catch: log and return, the task loop goes on
TaskFailureAborts(r, err) ==
  Thrown([r EXCEPT !.failed = r.failed \cup {r.j}], err,
         <<Log("error", "completeFailed")>>)
TaskFailure(r, err) ==
  ToTask([r EXCEPT !.failed = r.failed \cup {r.j}], r.j + 1,
         <<Log("error", "completeFailed"), Log("error", "taskFailed")>>)

\* an Error leaves the call site `site` (after the single retry, or from
\* an exhausted refresh): the innermost enclosing catch decides
PropagateFinalFailureThrows(r, site, err) ==
  LET o == CASE site = "info1" -> ToTask(r, 1, <<>>)
             [] site = "comp" -> TaskFailure(r, err)
             [] OTHER -> Thrown(r, err, <<>>)
  IN [o EXCEPT !.run.err = err]
Propagate(r, site, err) ==
  LET o == CASE site \in {"ensure", "tasks1"} -> Thrown(r, err, <<>>)
             [] site = "info1" -> ToTask(r, 1, <<>>)
             [] site = "comp" -> TaskFailure(r, err)
             [] OTHER -> Done(r, <<Log("warning", "refreshFailed")>>, <<>>)
  IN [o EXCEPT !.run.err = err]

\* the call site retries once after a refresh, only on TOKEN_EXPIRED
RetryOnAnyError(res, retry) == res # "ok" /\ ~retry
RetryOnEveryExpiry(res, retry) == res = "TOKEN_EXPIRED"
RetryAfterRefresh(res, retry) == res = "TOKEN_EXPIRED" /\ ~retry

\* refreshUserToken returned the record with token t to call site `site`
Refreshed(r, site, t) ==
  LET q == [Leave(r) EXCEPT !.refs = r.refs] IN
  CASE site = "ensure" ->
         IF t = NoToken THEN Thrown([q EXCEPT !.tok = t], "Error", <<>>)
         ELSE IssueTasks1([q EXCEPT !.tok = t], FALSE, <<Log("info", "fetching")>>)
    [] site = "tasks1" -> IssueTasks1([q EXCEPT !.tok = t], TRUE, <<>>)
    [] site = "info1" -> IssueInfo1([q EXCEPT !.tok = t], TRUE, <<>>, <<>>)
    [] site = "comp" -> IssueComplete(q, t, TRUE, <<>>)
    [] site = "info2" -> IssueInfo2([q EXCEPT !.tok = t], TRUE, <<>>)
    [] OTHER -> IssueTasks2([q EXCEPT !.tok = t], TRUE)

\* broadcastToClients(data): client.send for every client of wsClients
\* whose readyState is 1 (OPEN). A client that is gone or closing is
\* passed over; a send on a socket that breaks is reported later through
\* the 'error' event of the client, which index.js logs
ClientStates == {"none", "open", "closing", "broken"}
Delivery(c) == CASE c = "open" -> "delivered"
                 [] c = "broken" -> "failed"
                 [] OTHER -> "lost"

\* the call returns to its caller in every case
BroadcastThrowsOnFailure(c) == Delivery(c) # "failed"
BroadcastReturns(c) == TRUE

\* the caller goes on with `out`, or a throw of the call would take it
\* to `thrown`
Broadcast(c, out, thrown) == IF BroadcastReturns(c) THEN out ELSE thrown

\* a step of the run that no remote reply resumed
Apply(out) ==
  /\ run' = [out.run EXCEPT !.got = "none"]
  /\ calls' = out.calls
  /\ logs' = out.logs
  /\ events' = out.events

\* a step of the run resumed by the reply of its remote call
Resume(reply, out) ==
  /\ run' = [out.run EXCEPT !.got = reply]
  /\ calls' = out.calls
  /\ logs' = out.logs
  /\ events' = out.events

Spend(reply) == faults' = IF reply = "ok" THEN faults ELSE faults - 1

\* if (!userData.token) userData = await this.refreshUserToken(user)
EnsureTokenSkipped(r) == IssueTasks1(r, FALSE, <<Log("info", "fetching")>>)
EnsureToken(r) ==
  IF r.tok = NoToken
    THEN RefreshUserToken(r, "ensure", "none")
    ELSE IssueTasks1(r, FALSE, <<Log("info", "fetching")>>)

\* getUserData answered: ensure a token, then fetch the task list
RunStart ==
  /\ run.pc = "start"
  /\ op' = "runStart"
  /\ Apply(EnsureToken([run EXCEPT !.tok = userStore[run.uid].token]))
  /\ UNCHANGED <<schedVars, batch, storeVars, remote, faults, overlap>>
  /\ UNCHANGED sideVars

\* refreshUserToken, an attempt threw: lastError = error, then the wait
\* of attempt * 2000 ms if attempts are left, else throw lastError
AttemptFailedKeepsFirst(r, err) ==
  LET q == [r EXCEPT !.lastError = IF r.lastError = "none" THEN err
                                                           ELSE r.lastError]
  IN IF r.att < RefreshRetries
       THEN Out([q EXCEPT !.pc = "wait", !.wait = r.att * BackoffMs],
                <<>>, <<>>, <<>>)
       ELSE Propagate(q, q.site, q.lastError)
AttemptFailed(r, err) ==
  LET q == [r EXCEPT !.lastError = err]
  IN IF r.att < RefreshRetries
       THEN Out([q EXCEPT !.pc = "wait", !.wait = r.att * BackoffMs],
                <<>>, <<>>, <<>>)
       ELSE Propagate(q, q.site, q.lastError)

\* userData.token = loginResult.token; redisClient.set(`user:${uid}`,
\* JSON.stringify(userData)): the record read, with the new token, replaces
\* whatever the key holds
SetUserIfUnchanged(current, userData, token) ==
  IF current = userData THEN [userData EXCEPT !.present = TRUE, !.token = token]
                        ELSE current
SetUser(current, userData, token) ==
  [userData EXCEPT !.present = TRUE, !.token = token]

\* refreshUserToken, checkLogin threw: control jumps from the call to the
\* catch of the attempt, past redisClient.set
FailedAttemptClearsToken(store, uid) == [store EXCEPT ![uid].token = NoToken]
FailedAttemptStore(store, uid) == store

\* refreshUserToken: checkLogin answered
ReplyLogin ==
  /\ run.pc = "login"
  /\ op' = "replyLogin"
  /\ \E reply \in LoginReplies(faults) :
       /\ Spend(reply)
       /\ IF LoginResult(reply) = "ok"
            THEN LET t == LoginToken(reply, remote.issued) IN
                   /\ remote' = [remote EXCEPT !.issued =
                                   IF t = NoToken THEN remote.issued ELSE t]
                   /\ userStore' = [userStore EXCEPT ![run.uid] =
                                      SetUser(userStore[run.uid], run.snap, t)]
                   /\ Resume(reply, Refreshed(run, run.site, t))
            ELSE /\ UNCHANGED remote
                 /\ userStore' = FailedAttemptStore(userStore, run.uid)
                 /\ Resume(reply, AttemptFailed(run, LoginResult(reply)))
  /\ UNCHANGED <<schedVars, batch, configUsers, tasksStore, fetchedAt, completed,
                 overlap>>
  /\ UNCHANGED sideVars

\* refreshUserToken: the backoff of attempt * 2000 ms elapsed
RefreshWait ==
  /\ run.pc = "wait"
  /\ op' = "refreshWait"
  /\ Apply(RefreshAttempt(run, run.site, run.att + 1))
  /\ UNCHANGED <<schedVars, batch, storeVars, remote, faults, overlap>>
  /\ UNCHANGED sideVars

\* getActivityTasks answered (first fetch of the run)
ReplyTasks1 ==
  /\ run.pc = "tasks1"
  /\ op' = "replyTasks1"
  /\ \E reply \in Replies(faults) :
       /\ Spend(reply)
       /\ LET res == FetchResult(reply) IN
            IF res = "ok"
              THEN LET r == [run EXCEPT !.tasks = remote.tasks[run.uid],
                                        !.fetched = TRUE] IN
                     /\ tasksStore' = [tasksStore EXCEPT ![run.uid] = r.tasks]
                     /\ fetchedAt' = [fetchedAt EXCEPT ![run.uid] = TRUE]
                     /\ Resume(reply,
                               Broadcast(wsClients,
                                         IssueInfo1(r, FALSE,
                                                    <<Log("info", "fetched")>>,
                                                    <<"tasksUpdated">>),
                                         Thrown(r, "Error",
                                                <<Log("info", "fetched")>>)))
              ELSE /\ UNCHANGED <<tasksStore, fetchedAt>>
                   /\ IF RetryAfterRefresh(res, run.retry)
                        THEN Resume(reply, LET o == RefreshUserToken(run, "tasks1", res)
                                   IN [o EXCEPT !.logs = <<Log("warning", "retrying")>>])
                        ELSE Resume(reply, Propagate(run, "tasks1", res))
  /\ UNCHANGED <<schedVars, batch, configUsers, userStore, completed, remote,
                 overlap>>
  /\ UNCHANGED sideVars

\* after the user-info block: draw per ticket, then the task loop
AfterInfo1(r, lot) ==
  IF lot > 0 THEN IssueDraw([r EXCEPT !.lot = lot], 1, <<Log("info", "lottery")>>)
             ELSE ToTask(r, 1, <<>>)

\* getUserInfo answered (lottery check)
ReplyInfo1 ==
  /\ run.pc = "info1"
  /\ op' = "replyInfo1"
  /\ \E reply \in Replies(faults) :
       /\ Spend(reply)
       /\ LET res == FetchResult(reply) IN
            IF res = "ok" THEN Resume(reply, AfterInfo1(run, remote.tickets[run.uid]))
            ELSE IF RetryAfterRefresh(res, run.retry)
              THEN Resume(reply, RefreshUserToken(run, "info1", res))
              ELSE Resume(reply, Propagate(run, "info1", res))
  /\ UNCHANGED <<schedVars, batch, storeVars, remote, overlap>>
  /\ UNCHANGED sideVars

\* for (let i = 0; i < lotteryNum; i++): after draw k
NextDraw(r, l) ==
  IF r.k < r.lot THEN IssueDraw(r, r.k + 1, l) ELSE ToTask(r, 1, l)

\* the body of the draw loop after await apiService.drawPrize(...):
\* TOKEN_EXPIRED breaks the loop, any other Error is logged and the loop
\* continues
AfterDrawContinueOnExpiry(r, res) ==
  IF res = "ok" THEN NextDraw(r, <<DrawLog("success", "prize", r.k)>>)
  ELSE NextDraw(r, <<DrawLog("error", "drawFailed", r.k)>>)
AfterDrawBreakOnError(r, res) ==
  IF res = "ok" THEN NextDraw(r, <<DrawLog("success", "prize", r.k)>>)
  ELSE ToTask(r, 1, <<DrawLog("warning", "drawExpired", r.k)>>)
AfterDraw(r, res) ==
  IF res = "ok" THEN NextDraw(r, <<DrawLog("success", "prize", r.k)>>)
  ELSE IF res = "TOKEN_EXPIRED"
    THEN ToTask(r, 1, <<DrawLog("warning", "drawExpired", r.k)>>)
    ELSE NextDraw(r, <<DrawLog("error", "drawFailed", r.k)>>)

\* drawPrize answered
ReplyDraw ==
  /\ run.pc = "draw"
  /\ op' = "replyDraw"
  /\ \E reply \in Replies(faults) :
       /\ Spend(reply)
       /\ Resume(reply, AfterDraw(run, FetchResult(reply)))
  /\ UNCHANGED <<schedVars, batch, storeVars, remote, overlap>>
  /\ UNCHANGED sideVars

\* nothing reads the key task:<uid>:<task_id>:completed before
\* completeTask is called
SkipIfRecorded(uid, j, records) == <<uid, j>> \in records
RecordConsulted(uid, j, records) == FALSE

\* processDailyTask(user, userData, task) for task j of the list
ProcessDailyTask(r) ==
  LET c == Classify(r.tasks[r.j])
      q == [r EXCEPT !.classified = r.classified \cup {r.j}]
  IN CASE c = "Skip" \/ RecordConsulted(r.uid, r.j, completed) ->
            ToTask(q, r.j + 1, <<Log("info", "skipped")>>)
       [] c = "CompleteNow" ->
            IssueComplete(q, r.tok, FALSE,
                          <<Log(IF r.tasks[r.j].type = 1 THEN "info" ELSE "success",
                                "completing")>>)
       [] c = "Defer" ->
            ToTask([q EXCEPT !.deferred = r.deferred \cup {r.j}], r.j + 1,
                   <<Log("warning", "deferred")>>)
       [] OTHER -> ToTask(q, r.j + 1, <<Log("warning", "unknownType")>>)

ProcessTask ==
  /\ run.pc = "task"
  /\ run.j <= Len(run.tasks)
  /\ op' = "processTask"
  /\ Apply(ProcessDailyTask(run))
  /\ UNCHANGED <<schedVars, batch, storeVars, remote, faults, overlap>>
  /\ UNCHANGED sideVars

\* the task loop is through: refresh user info and task list
AfterTasks ==
  /\ run.pc = "task"
  /\ run.j > Len(run.tasks)
  /\ op' = "afterTasks"
  /\ Apply(IssueInfo2(run, FALSE, <<Log("info", "refreshing")>>))
  /\ UNCHANGED <<schedVars, batch, storeVars, remote, faults, overlap>>
  /\ UNCHANGED sideVars

\* completeTask answered
ReplyComp ==
  /\ run.pc = "comp"
  /\ op' = "replyComp"
  /\ \E reply \in Replies(faults) :
       /\ Spend(reply)
       /\ LET res == CompleteResult(reply) IN
            IF res = "ok"
              THEN /\ completed' = IF BroadcastReturns(wsClients)
                                        THEN completed \cup {<<run.uid, run.j>>}
                                        ELSE completed
                   /\ Resume(reply,
                             Broadcast(wsClients,
                                       LET o == ToTask(run, run.j + 1,
                                                       <<Log("success", "completed")>>)
                                       IN [o EXCEPT !.events =
                                             <<"taskCompleted">> \o o.events],
                                       LET o == Propagate(run, "comp", "Error")
                                       IN [o EXCEPT !.logs =
                                             <<Log("success", "completed")>> \o o.logs]))
              ELSE /\ UNCHANGED completed
                   /\ IF RetryAfterRefresh(res, run.retry)
                        THEN Resume(reply, LET o == RefreshUserToken(run, "comp", res)
                                   IN [o EXCEPT !.logs = <<Log("warning", "retrying")>>])
                        ELSE Resume(reply, Propagate(run, "comp", res))
  /\ UNCHANGED <<schedVars, batch, configUsers, userStore, tasksStore, fetchedAt, remote,
                 overlap>>
  /\ UNCHANGED sideVars

\* getUserInfo answered (refresh after the task loop)
ReplyInfo2 ==
  /\ run.pc = "info2"
  /\ op' = "replyInfo2"
  /\ \E reply \in Replies(faults) :
       /\ Spend(reply)
       /\ LET res == FetchResult(reply) IN
            IF res = "ok" THEN Resume(reply, IssueTasks2(run, FALSE))
            ELSE IF RetryAfterRefresh(res, run.retry)
              THEN Resume(reply, RefreshUserToken(run, "info2", res))
              ELSE Resume(reply, Propagate(run, "info2", res))
  /\ UNCHANGED <<schedVars, batch, storeVars, remote, overlap>>
  /\ UNCHANGED sideVars

\* getActivityTasks answered (refresh after the task loop)
ReplyTasks2 ==
  /\ run.pc = "tasks2"
  /\ op' = "replyTasks2"
  /\ \E reply \in Replies(faults) :
       /\ Spend(reply)
       /\ LET res == FetchResult(reply) IN
            IF res = "ok"
              THEN /\ tasksStore' = [tasksStore EXCEPT ![run.uid] =
                                       remote.tasks[run.uid]]
                   /\ fetchedAt' = [fetchedAt EXCEPT ![run.uid] = TRUE]
                   /\ Resume(reply,
                             Broadcast(wsClients,
                                       Done(run, <<Log("success", "refreshed")>>,
                                            <<"tasksUpdated", "userInfoUpdated">>),
                                       Propagate(run, "tasks2", "Error")))
              ELSE /\ UNCHANGED <<tasksStore, fetchedAt>>
                   /\ IF RetryAfterRefresh(res, run.retry)
                        THEN Resume(reply, RefreshUserToken(run, "tasks2", res))
                        ELSE Resume(reply, Propagate(run, "tasks2", res))
  /\ UNCHANGED <<schedVars, batch, configUsers, userStore, completed, remote,
                 overlap>>
  /\ UNCHANGED sideVars

\* ------------------------------------------------------- the batch loop
NextAny(users, i) == i
RECURSIVE NextActive(_, _)
\* for (const user of users) { if (user.isActive) ... }: the first active
\* account at or after position i, Len(users) + 1 when there is none
NextActive(users, i) ==
  IF i > Len(users) THEN i
  ELSE IF users[i].isActive THEN i
  ELSE NextActive(users, i + 1)

\* the loop moves on from position i: the next pipeline starts, or the
\* batch completes (a first execution schedules the second one, a second
\* execution removes its job from the map)
Advance(users, i, l) ==
  LET n == NextActive(users, i) IN
    IF n <= Len(users)
      THEN /\ batch' = [batch EXCEPT !.phase = "loop", !.users = users, !.i = n,
                                     !.started = Append(batch.started, users[n].uid)]
           /\ run' = [IdleRun EXCEPT !.pc = "start", !.uid = users[n].uid]
           /\ logs' = l
           /\ op' = "batchNext"
           /\ UNCHANGED <<jobs, handles>>
      ELSE /\ batch' = IdleBatch
           /\ run' = IdleRun
           /\ IF batch.exec = 1
                THEN /\ handles' = ScheduleSecondExecution(handles, now)
                     /\ jobs' = [jobs EXCEPT !["secondExecution"] = Len(handles')]
                     /\ logs' = l \o <<Log("success", "firstCompleted"),
                                       Log("info", "secondScheduled")>>
                     /\ op' = "firstFinish"
                ELSE /\ UNCHANGED handles
                     /\ jobs' = [jobs EXCEPT !["secondExecution"] = NoJob]
                     /\ logs' = l \o <<Log("success", "secondCompleted")>>
                     /\ op' = "secondFinish"

\* await: the loop body resumes when executeDailySignIn has settled
NotAwaited(pc) == pc # "none"
AwaitedOnReturn(pc) == pc = "done"
Awaited(pc) == pc \in {"done", "threw"}

\* try { await ... } catch (error) { ... }: a run that threw is logged and
\* the loop goes on with the next position
AfterRunAbortOnThrow(users, i, pc) == IF pc = "threw" THEN Len(users) + 1 ELSE i + 1
AfterRun(users, i, pc) == i + 1

\* loadUsers() answered
BatchLoad ==
  /\ batch.phase = "load"
  /\ Advance(configUsers, 1, <<Log("info", "batchStarted")>>)
  /\ calls' = <<>> /\ events' = <<>>
  /\ UNCHANGED <<isRunning, timeouts, atStop, now, storeVars, remote, faults,
                 overlap>>
  /\ UNCHANGED sideVars

\* the catch of the loop body logs the Error; it does not assign
\* this.isRunning
FlagClearedOnThrow(running, pc) == running /\ pc # "threw"
FlagAfterRun(running, pc) == running

\* await this.executeDailySignIn(user, n) came back, or threw into the
\* catch of the loop body
BatchAdvance ==
  /\ batch.phase = "loop"
  /\ Awaited(run.pc)
  /\ Advance(batch.users, AfterRun(batch.users, batch.i, run.pc),
             IF run.pc = "threw" THEN <<Log("error", "runFailed")>> ELSE <<>>)
  /\ isRunning' = FlagAfterRun(isRunning, run.pc)
  /\ calls' = <<>> /\ events' = <<>>
  /\ UNCHANGED <<timeouts, atStop, now, storeVars, remote, faults, overlap>>
  /\ UNCHANGED sideVars

\* ---------------------------------------------------------- addSystemLog
\* logArray.unshift(newLog); if (logArray.length > 100) logArray.pop()
UnshiftNeverPops(logArray, newLog) == <<newLog>> \o logArray
UnshiftThenPop(logArray, newLog) ==
  LET l == <<newLog>> \o logArray
  IN IF Len(l) > LogCap THEN SubSeq(l, 1, Len(l) - 1) ELSE l

\* addSystemLog(message, type) is called (no caller awaits it): its GET
\* of system:logs is sent, newLog.id is the time of the call
AddSystemLog ==
  /\ sysLog.seq - sysLog.base < MaxAdds
  /\ Len(sysLog.pending) < MaxPending
  /\ op' = "addSystemLog"
  /\ sysLog' = [sysLog EXCEPT
                  !.seq = sysLog.seq + 1,
                  !.pending = Append(sysLog.pending,
                                     [id |-> sysLog.seq + 1,
                                      logArray |-> sysLog.stored])]
  /\ calls' = <<>> /\ logs' = <<>> /\ events' = <<>>
  /\ UNCHANGED <<schedVars, batch, run, storeVars, remote, faults, overlap,
                 wsClients, manual>>

\* the GET of the oldest call in flight answered: the call puts its
\* entry on the array it read, stores the array and broadcasts the entry
LogWrite ==
  /\ sysLog.pending # <<>>
  /\ op' = "logWrite"
  /\ LET c == Head(sysLog.pending) IN
       sysLog' = [sysLog EXCEPT
                    !.stored = UnshiftThenPop(c.logArray, c.id),
                    !.pending = Tail(sysLog.pending)]
  /\ calls' = <<>> /\ logs' = <<>> /\ events' = <<"systemLog">>
  /\ UNCHANGED <<schedVars, batch, run, storeVars, remote, faults, overlap,
                 wsClients, manual>>

\* ------------------------------------------------------------ API routes
\* what a route step leaves of the step outputs it does not set
RouteStep(label, c) ==
  /\ op' = label
  /\ calls' = c /\ logs' = <<>> /\ events' = <<>>
  /\ UNCHANGED <<schedVars, batch, run, configUsers, tasksStore, fetchedAt,
                 completed, overlap, wsClients, sysLog>>

\* res.status(code).json(...): the request is over
Respond(m, code) ==
  [IdleManual EXCEPT !.route = m.route, !.uid = m.uid, !.task = m.task,
                     !.status = code, !.n = m.n]

\* a request arrives at `route` for account u (and task j)
Request(route, u, j) ==
  [IdleManual EXCEPT !.route = route, !.uid = u, !.task = j,
                     !.n = manual.n + 1]

\* checkLogin with the token of the record under user:<uid>
RouteLogin(m, att) ==
  [m EXCEPT !.pc = "login", !.att = att, !.snap = userStore[m.uid],
            !.reply = "none", !.tok = NoToken]

\* POST /users/:uid/refresh-token
ManualRefresh(u) ==
  /\ manual.pc = "none" /\ manual.n < MaxRequests
  /\ LET m == Request("refresh", u, 0) IN
       IF ~userStore[u].present
         THEN /\ manual' = Respond(m, 404)
              /\ RouteStep("manualRefresh", <<>>)
         ELSE /\ manual' = RouteLogin(m, 1)
              /\ RouteStep("manualRefresh",
                           <<Call("checkLogin", u, userStore[u].token, 0)>>)
  /\ UNCHANGED <<userStore, remote, faults>>

\* POST /users/:uid/tasks/:taskId/complete
ManualComplete(u, j) ==
  /\ manual.pc = "none" /\ manual.n < MaxRequests
  /\ LET m == Request("complete", u, j) IN
       IF ~userStore[u].present \/ j > Len(tasksStore[u])
            \/ RecordConsulted(u, j, completed)
         THEN /\ manual' = Respond(m, 404)
              /\ RouteStep("manualComplete", <<>>)
         ELSE /\ manual' = [m EXCEPT !.pc = "comp", !.tok = userStore[u].token]
              /\ RouteStep("manualComplete",
                           <<Call("completeTask", u, userStore[u].token, j)>>)
  /\ UNCHANGED <<userStore, remote, faults>>

\* the remote service answers the checkLogin of the request; the answer
\* is on its way back
ManualServed ==
  /\ manual.pc = "login"
  /\ \E reply \in LoginReplies(faults) :
       /\ Spend(reply)
       /\ LET t == IF LoginResult(reply) = "ok"
                     THEN LoginToken(reply, remote.issued) ELSE NoToken
          IN /\ remote' = [remote EXCEPT !.issued =
                             IF t = NoToken THEN remote.issued ELSE t]
             /\ manual' = [manual EXCEPT !.pc = "served", !.reply = reply,
                                         !.tok = t]
  /\ RouteStep("manualServed", <<>>)
  /\ UNCHANGED userStore

\* the checkLogin answer arrives: the refresh route stores the record and
\* responds; refreshUserToken, called by the complete route, stores it,
\* the route reads the record again and retries, or the attempt failed
ManualLoginReply ==
  /\ manual.pc = "served"
  /\ LET res == LoginResult(manual.reply)
         rec == SetUser(userStore[manual.uid], manual.snap, manual.tok)
     IN CASE res = "ok" /\ manual.route = "refresh" ->
               /\ userStore' = [userStore EXCEPT ![manual.uid] = rec]
               /\ manual' = Respond(manual, 200)
               /\ RouteStep("manualLoginReply", <<>>)
          [] res = "ok" /\ manual.route = "complete" ->
               /\ userStore' = [userStore EXCEPT ![manual.uid] = rec]
               /\ manual' = [manual EXCEPT !.pc = "comp", !.retry = TRUE,
                                           !.tok = userStore'[manual.uid].token,
                                           !.att = 0, !.reply = "none",
                                           !.lastError = "none"]
               /\ RouteStep("manualLoginReply",
                            <<Call("completeTask", manual.uid,
                                   userStore'[manual.uid].token, manual.task)>>)
          [] res # "ok" /\ manual.route = "complete"
               /\ manual.att < RefreshRetries ->
               /\ manual' = [manual EXCEPT !.pc = "wait", !.lastError = res]
               /\ RouteStep("manualLoginReply", <<>>)
               /\ UNCHANGED userStore
          [] OTHER ->
               /\ manual' = Respond(manual, 500)
               /\ RouteStep("manualLoginReply", <<>>)
               /\ UNCHANGED userStore
  /\ UNCHANGED <<remote, faults>>

\* refreshUserToken called by the complete route: the backoff elapsed
ManualWait ==
  /\ manual.pc = "wait"
  /\ manual' = RouteLogin(manual, manual.att + 1)
  /\ RouteStep("manualWait",
               <<Call("checkLogin", manual.uid, userStore[manual.uid].token, 0)>>)
  /\ UNCHANGED <<userStore, remote, faults>>

\* the complete route: completeTask answered
ManualCompleteReply ==
  /\ manual.pc = "comp"
  /\ \E reply \in Replies(faults) :
       /\ Spend(reply)
       /\ LET res == CompleteResult(reply) IN
            IF res = "ok"
              THEN /\ manual' = Respond(manual, 200)
                   /\ RouteStep("manualCompleteReply", <<>>)
            ELSE IF RetryAfterRefresh(res, manual.retry)
              THEN /\ manual' = RouteLogin(manual, 1)
                   /\ RouteStep("manualCompleteReply",
                                <<Call("checkLogin", manual.uid,
                                       userStore[manual.uid].token, 0)>>)
              ELSE /\ manual' = Respond(manual, 500)
                   /\ RouteStep("manualCompleteReply", <<>>)
  /\ UNCHANGED <<userStore, remote>>

\* no key user:<uid> in the store
NoRecord == [present |-> FALSE, token |-> NoToken]

\* DELETE /users/:uid: one store command per await, each issued when the
\* one before it has answered
DeleteStep(label, e) ==
  /\ op' = label
  /\ calls' = <<>> /\ logs' = <<>> /\ events' = e
  /\ UNCHANGED <<schedVars, batch, run, remote, faults, overlap, wsClients,
                 sysLog>>

\* users.filter((u) => u.uid !== uid)
FilterUid(users, uid) == SelectSeq(users, LAMBDA x : x.uid # uid)

\* the request arrives: redisClient.del(`user:${uid}`)
DeleteUser(u) ==
  /\ manual.pc = "none" /\ manual.n < MaxRequests
  /\ manual' = [Request("delete", u, 0) EXCEPT !.pc = "delUser"]
  /\ userStore' = [userStore EXCEPT ![u] = NoRecord]
  /\ DeleteStep("deleteUser", <<>>)
  /\ UNCHANGED <<configUsers, tasksStore, fetchedAt, completed>>

\* the keys deleted after user:<uid>: tasks:<uid>, logs:<uid> and
\* token:<uid>:lastRefresh (the last two hold nothing the scheduler reads)
DeleteKeys ==
  /\ manual.pc \in {"delUser", "delTasks", "delLogs"}
  /\ CASE manual.pc = "delUser" ->
            /\ tasksStore' = [tasksStore EXCEPT ![manual.uid] = <<>>]
            /\ manual' = [manual EXCEPT !.pc = "delTasks"]
       [] manual.pc = "delTasks" ->
            /\ manual' = [manual EXCEPT !.pc = "delLogs"]
            /\ UNCHANGED tasksStore
       [] OTHER ->
            /\ manual' = [manual EXCEPT !.pc = "delStamp"]
            /\ UNCHANGED tasksStore
  /\ DeleteStep("deleteKeys", <<>>)
  /\ UNCHANGED <<configUsers, userStore, fetchedAt, completed>>

\* redisClient.get('config:users')
DeleteListRead ==
  /\ manual.pc = "delStamp"
  /\ manual' = [manual EXCEPT !.pc = "getUsers", !.users = configUsers]
  /\ DeleteStep("deleteListRead", <<>>)
  /\ UNCHANGED storeVars

\* redisClient.set('config:users', ...) with the list read, filtered
DeleteListWrite ==
  /\ manual.pc = "getUsers"
  /\ configUsers' = FilterUid(manual.users, manual.uid)
  /\ manual' = [manual EXCEPT !.pc = "setUsers"]
  /\ DeleteStep("deleteListWrite", <<>>)
  /\ UNCHANGED <<userStore, tasksStore, fetchedAt, completed>>

\* broadcastToClients({type: 'userRemoved'}); res.json({code: 0})
DeleteRespond ==
  /\ manual.pc = "setUsers"
  /\ manual' = Respond(manual, 200)
  /\ DeleteStep("deleteRespond", <<"userRemoved">>)
  /\ UNCHANGED storeVars

\* ------------------------------------------------------ WebSocket clients
\* wss.on('connection'), ws.on('close'), or the socket of the client
\* starts closing or breaks
ClientChange ==
  /\ \E c \in ClientStates \ {wsClients} : wsClients' = c
  /\ op' = "clientChange"
  /\ calls' = <<>> /\ logs' = <<>> /\ events' = <<>>
  /\ UNCHANGED <<schedVars, batch, run, storeVars, remote, faults, overlap,
                 sysLog, manual>>

\* ------------------------------------------------------- specifications
UserLists ==
  UNION {[1 .. k -> {[uid |-> u, isActive |-> a] : u \in Uids, a \in BOOLEAN}]
           : k \in 0 .. MaxUsers}

\* config:users holds each account once, in the order they were added
ConfigLists == {us \in UserLists : \A i \in 1 .. Len(us) : us[i].uid = i}

UserRecords == {[present |-> TRUE, token |-> t] : t \in {NoToken, 1}}

Tokenless == [present |-> TRUE, token |-> NoToken]

\* the store and the remote service a workload starts with; the store
\* holds a record for the accounts of config:users only
DataInit(configs, records, lists, tickets, budget) ==
  /\ configUsers \in configs
  /\ userStore \in [Uids -> records \cup {NoRecord}]
  /\ \A u \in Uids : userStore[u] = NoRecord <=> u > Len(configUsers)
  /\ tasksStore = [u \in Uids |-> <<>>]
  /\ fetchedAt = [u \in Uids |-> FALSE]
  /\ completed = {}
  /\ \E ts \in lists, n \in tickets :
       remote = [tasks |-> [u \in Uids |-> ts], tickets |-> [u \in Uids |-> n],
                 issued |-> 1]
  /\ faults = budget
  /\ calls = <<>> /\ logs = <<>> /\ events = <<>>
  /\ overlap = FALSE

\* a client is connected, the system log is empty, no request is served
SideInit ==
  /\ wsClients = "open"
  /\ sysLog = EmptyLog
  /\ manual = IdleManual

SchedLists == {us \in ConfigLists : Len(us) <= SchedUsers}

\* the state the constructor leaves; the scheduler workloads run over
\* every account list of up to SchedUsers accounts, each account stored
\* without a token and having one sign-in task and a ticket
Init ==
  /\ isRunning = FALSE
  /\ jobs = [n \in JobNames |-> NoJob]
  /\ handles = <<>>
  /\ timeouts = <<>> /\ atStop = <<>>
  /\ now = StartTick
  /\ batch = IdleBatch
  /\ run = IdleRun
  /\ op = "init"
  /\ DataInit(SchedLists, {Tokenless}, {<<Task(1, 0, 1)>>}, {1}, SchedFaults)
  /\ SideInit

SchedNext ==
  \/ Start
  \/ Stop
  \/ Tick
  \/ \E h \in 1 .. Len(handles) : DailyFire(h)
  \/ \E i \in 1 .. Len(timeouts) : FirstRunFire(i)
  \/ \E h \in 1 .. Len(handles) : SecondFire(h)

RunNext ==
  \/ BatchLoad
  \/ BatchAdvance
  \/ RunStart
  \/ ReplyLogin
  \/ RefreshWait
  \/ ReplyTasks1
  \/ ReplyInfo1
  \/ ReplyDraw
  \/ ProcessTask
  \/ AfterTasks
  \/ ReplyComp
  \/ ReplyInfo2
  \/ ReplyTasks2

Next == SchedNext \/ RunNext

Spec == Init /\ [][Next]_vars

\* the scheduler was started before 8:00, the 8:00 job fired and the
\* delayed first run has just passed its flag check
FirstRunFired ==
  /\ isRunning = TRUE
  /\ handles = ScheduleDailyExecution(<<>>, TriggerTick)
  /\ jobs = [n \in JobNames |-> IF n = "dailyExecution" THEN 1 ELSE NoJob]
  /\ timeouts = <<>> /\ atStop = <<>>
  /\ now = TriggerTick
  /\ batch = [IdleBatch EXCEPT !.phase = "load", !.exec = 1]
  /\ run = IdleRun
  /\ op = "firstRunFire"

\* the batch workloads: a first execution over every account list, with
\* and without stored tokens
BatchInit ==
  /\ FirstRunFired
  /\ DataInit(ConfigLists, UserRecords, {<<Task(1, 0, 1)>>}, {1}, BatchFaults)
  /\ SideInit

BatchSpec == BatchInit /\ [][RunNext]_vars

\* the batch workloads when every remote call, store command and timer
\* the batch waits for comes back: a step that can be taken is taken
BatchFairSpec == BatchSpec /\ WF_vars(RunNext)

OneAccount == {<<[uid |-> 1, isActive |-> TRUE]>>}

\* the account workloads: a first execution over one active account
\* that has a lottery ticket, for every task list
AccountInit ==
  /\ FirstRunFired
  /\ DataInit(OneAccount, UserRecords, TaskListsUpTo(MaxTasks), {1},
              MaxFaults)
  /\ SideInit

AccountSpec == AccountInit /\ [][RunNext]_vars

\* the draw workloads: a first execution over one active account with a
\* sign-in and a deferred task, for every ticket count
LotteryInit ==
  /\ FirstRunFired
  /\ DataInit(OneAccount, UserRecords, {<<Task(1, 0, 1), Task(2, 0, 1)>>},
              0 .. MaxTickets, MaxFaults)
  /\ SideInit

LotterySpec == LotteryInit /\ [][RunNext]_vars

\* the end-to-end workloads: a first execution over one active account
\* without a token whose list holds a sign-in task and a progress task
\* at 90/90, for every ticket count
EndToEndTasks == <<Task(1, 0, 1), Task(2, 90, 90)>>
EndToEndInit ==
  /\ FirstRunFired
  /\ DataInit(OneAccount, {Tokenless}, {EndToEndTasks}, 0 .. MaxTickets,
              MaxFaults)
  /\ SideInit

EndToEndSpec == EndToEndInit /\ [][RunNext]_vars

\* system:logs after n addSystemLog calls made one after the other
LogOf(n) == [i \in 1 .. n |-> n - i + 1]

\* the log workloads: addSystemLog calls, up to MaxPending of them in
\* flight, on a log that is empty, short, or within MaxAdds of its cap
LogLengths == (0 .. 1) \cup ((LogCap - MaxAdds) .. LogCap)
LogInit ==
  /\ FirstRunFired
  /\ DataInit(OneAccount, {Tokenless}, {<<Task(1, 0, 1)>>}, {0}, 0)
  /\ wsClients = "open"
  /\ manual = IdleManual
  /\ \E n \in LogLengths :
       sysLog = [stored |-> LogOf(n), pending |-> <<>>, seq |-> n, base |-> n]

LogNext == AddSystemLog \/ LogWrite

LogSpec == LogInit /\ [][LogNext]_vars

\* the route workloads: a first execution over one active account with
\* a sign-in task and a lottery ticket, and requests to the refresh-token
\* and complete routes arriving at any moment
ManualInit ==
  /\ FirstRunFired
  /\ DataInit(OneAccount, UserRecords, {<<Task(1, 0, 1)>>}, {1}, RouteFaults)
  /\ SideInit

ManualNext ==
  \/ \E u \in Uids : ManualRefresh(u)
  \/ \E u \in Uids, j \in 1 .. MaxTasks : ManualComplete(u, j)
  \/ ManualServed
  \/ ManualLoginReply
  \/ ManualWait
  \/ ManualCompleteReply

ManualSpec == ManualInit /\ [][RunNext \/ ManualNext]_vars

\* the event workloads: a first execution over one active account with
\* a sign-in task and a lottery ticket, while the WebSocket client comes,
\* goes and breaks at any moment
EventInit ==
  /\ FirstRunFired
  /\ DataInit(OneAccount, UserRecords, {<<Task(1, 0, 1)>>}, {1}, EventFaults)
  /\ wsClients \in ClientStates
  /\ sysLog = EmptyLog
  /\ manual = IdleManual

EventSpec == EventInit /\ [][RunNext \/ ClientChange]_vars

\* the removal workloads: a first execution over one active account with
\* a sign-in task, while the delete route serves a request for an account
DeleteInit ==
  /\ FirstRunFired
  /\ DataInit(OneAccount, UserRecords, {<<Task(1, 0, 1)>>}, {1}, DeleteFaults)
  /\ SideInit

DeleteNext ==
  \/ \E u \in Uids : DeleteUser(u)
  \/ DeleteKeys
  \/ DeleteListRead
  \/ DeleteListWrite
  \/ DeleteRespond

DeleteSpec == DeleteInit /\ [][RunNext \/ DeleteNext]_vars

\* ---------------------------------------------------------------- claims
FireLabels == {"dailyFire", "firstRunFire", "secondFire"}
FinishLabels == {"firstFinish", "secondFinish"}
LastHandle(hs) == hs[Len(hs)]
JobsEmpty(js) == \A n \in JobNames : js[n] = NoJob

\* no two batches ever execute at once within the clock bound, so one
\* batch loop and one awaited run describe the scheduler completely
NoOverlap == ~overlap

\* C1: start() while already running changes nothing (flag, timers, jobs
\* map, log); start() from Stopped sets the flag and registers the daily
\* job under 'dailyExecution'
C1_StartIdempotent ==
  [][op' = "start" =>
       IF isRunning
         THEN /\ isRunning'
              /\ UNCHANGED <<jobs, handles, timeouts>>
              /\ logs' = <<>>
         ELSE /\ isRunning'
              /\ handles' = Append(handles, LastHandle(handles'))
              /\ LastHandle(handles').kind = "daily"
              /\ LastHandle(handles').live
              /\ jobs' = [jobs EXCEPT !["dailyExecution"] = Len(handles')]]_vars

\* start() was called while the scheduler was running
C1_Witness == op = "start" /\ isRunning /\ logs = <<>> /\ Len(handles) = 1

\* C2: right after any stop() the flag is false, every handle that was in
\* the jobs map is cancelled and the jobs map is empty
C2_StopCancelsAll ==
  [][op' \in StopLabels =>
       /\ ~isRunning'
       /\ JobsEmpty(jobs')
       /\ \A n \in JobNames : jobs[n] # NoJob => ~handles'[jobs[n]].live]_vars

\* a stop() has cancelled a registered daily job
C2_Witness ==
  /\ op = "stop"
  /\ \E h \in 1 .. Len(handles) : handles[h].kind = "daily" /\ ~handles[h].live

\* C3: a stop() directly after a stop() changes no scheduler state and
\* leaves the flag false
C3_StopTwice ==
  [][op' = "stopAgain" =>
       /\ ~isRunning'
       /\ UNCHANGED <<isRunning, jobs, handles, timeouts, batch, run>>]_vars

\* stop() was called twice in a row after the scheduler had run
C3_Witness == op = "stopAgain" /\ ~isRunning /\ Len(handles) > 0

\* C4: a timer callback that fires while the scheduler is stopped loads no
\* accounts, issues no remote call, writes nothing to the store (no log
\* either) and schedules no further run
C4_StoppedFireNoWork ==
  [][(op' \in FireLabels /\ ~isRunning) =>
       /\ UNCHANGED <<batch, run, storeVars, jobs, isRunning, remote>>
       /\ calls' = <<>> /\ logs' = <<>> /\ events' = <<>>
       /\ Len(timeouts') <= Len(timeouts)
       /\ Len(handles') = Len(handles)]_vars

\* the delayed first run fired after a stop()
C4_Witness == op = "firstRunFire" /\ ~isRunning /\ batch.phase = "idle"

\* C5: a first execution that completes registers one second execution,
\* due 4 hours after the completion; a second execution that completes
\* registers nothing
C5_SecondAfterCompletion ==
  [][/\ op' = "firstFinish" =>
          /\ handles' = Append(handles, [kind |-> "second",
                                         at |-> now + FourHours,
                                         live |-> TRUE])
          /\ jobs' = [jobs EXCEPT !["secondExecution"] = Len(handles')]
          /\ timeouts' = timeouts
     /\ op' = "secondFinish" =>
          /\ handles' = handles
          /\ timeouts' = timeouts]_vars

\* a first execution completed later than the 8:00 hour and its second
\* execution is due 4 hours after that moment
C5_Witness ==
  /\ op = "firstFinish"
  /\ LastHandle(handles).kind = "second"
  /\ LastHandle(handles).at = now + FourHours
  /\ now >= TriggerTick + RandomWindowHours * TicksPerHour

ActiveUids(users) ==
  LET act == SelectSeq(users, LAMBDA u : u.isActive)
  IN [k \in 1 .. Len(act) |-> act[k].uid]

\* C6: within a batch the pipelines run one after the other in list order:
\* a pipeline starts only when the one before it has ended, every remote
\* call and store write belongs to the account at the loop position, and
\* inactive accounts are never run
C6_Sequential ==
  /\ [](batch.phase = "loop" =>
          /\ batch.users[batch.i].isActive
          /\ run.uid = batch.users[batch.i].uid
          /\ batch.started = ActiveUids(SubSeq(batch.users, 1, batch.i))
          /\ \A c \in Range(calls) : c.uid = run.uid)
  /\ [][/\ batch'.started # batch.started => run.pc \in {"none", "done", "threw"}
        /\ \A u \in Uids :
             (userStore'[u] # userStore[u] \/ tasksStore'[u] # tasksStore[u]
              \/ \E t \in 1 .. MaxTasks + 1 :
                   <<u, t>> \in completed' \ completed)
             => (batch.phase = "loop" /\ u = run.uid)]_vars

\* the pipeline of the second account of the list issues a remote call
C6_Witness ==
  /\ batch.phase = "loop" /\ batch.i = 2 /\ Len(batch.started) = 2
  /\ calls # <<>>

\* C7: a run that fails never aborts the batch: the next active account
\* is started, and a batch only completes when every active account of
\* the loaded list has had its pipeline started
C7_FailureIsolated ==
  [][/\ op' \in FinishLabels =>
          batch.started = ActiveUids(IF batch.phase = "load" THEN configUsers
                                                            ELSE batch.users)
     /\ (batch.phase = "loop" /\ run.pc = "threw" /\ batch' # batch
         /\ NextActive(batch.users, batch.i + 1) <= Len(batch.users))
          => /\ batch'.i = NextActive(batch.users, batch.i + 1)
             /\ run'.pc = "start"]_vars

\* the run of the first account failed and the second one was started
C7_Witness ==
  /\ op = "batchNext" /\ batch.i = 2
  /\ logs = <<Log("error", "runFailed")>>
  /\ run.pc = "start"

RunEnded == run.pc \in {"done", "threw"}

\* C8: once the task list was fetched, the run ends only after every
\* task of the list was classified and every CompleteNow task had its
\* completion call issued, whichever completions failed
C8_TaskFailureIsolated ==
  (run.fetched /\ RunEnded) =>
     /\ run.classified = 1 .. Len(run.tasks)
     /\ run.attempted = {j \in 1 .. Len(run.tasks) :
                           Classify(run.tasks[j]) = "CompleteNow"}

\* the completion of task 1 failed and task 2 was still attempted
C8_Witness ==
  /\ RunEnded /\ run.fetched
  /\ 1 \in run.failed /\ 2 \in run.attempted

\* C9: processing a task of type 1 always issues its completion call,
\* whatever its value and target
C9_SignInCompletes ==
  [][(op' = "processTask" /\ run.tasks[run.j].type = 1) =>
       calls' = <<Call("completeTask", run.uid, run.tok, run.j)>>]_vars

\* a sign-in task with value below target had its completion call issued
C9_Witness ==
  /\ op = "processTask" /\ run.pc = "comp"
  /\ run.tasks[run.j].type = 1
  /\ run.tasks[run.j].value < run.tasks[run.j].target
  /\ calls # <<>>

DataStoreVars == <<configUsers, userStore, tasksStore, fetchedAt, completed>>

\* C10 as stated: for a task of type 2 the completion call is issued iff
\* value >= target, and a deferred task causes no store write at all
C10_DeferredWritesNothing ==
  [][(op' = "processTask" /\ run.tasks[run.j].type = 2) =>
       LET v == OrZero(run.tasks[run.j].value)
           t == OrZero(run.tasks[run.j].target)
       IN /\ (calls' # <<>>) <=> (v >= t)
          /\ v < t => /\ calls' = <<>>
                      /\ UNCHANGED DataStoreVars
                      /\ logs' = <<>>]_vars

\* C10 amended: for a task of type 2 the completion call is issued iff
\* value >= target (an absent field counts as 0); a deferred task gets no
\* completion call and no CompletionRecord, and the only store write it
\* causes is the warning entry of the system log
C10_ProgressThreshold ==
  [][(op' = "processTask" /\ run.tasks[run.j].type = 2) =>
       LET v == OrZero(run.tasks[run.j].value)
           t == OrZero(run.tasks[run.j].target)
       IN /\ (calls' # <<>>) <=> (v >= t)
          /\ v >= t => calls' = <<Call("completeTask", run.uid, run.tok, run.j)>>
          /\ v < t => /\ calls' = <<>>
                      /\ UNCHANGED DataStoreVars
                      /\ logs' = <<Log("warning", "deferred")>>
                      /\ events' = <<>>]_vars

\* a progress task below its target was deferred
C10_Witness ==
  /\ op = "processTask"
  /\ run.deferred # {}
  /\ logs = <<Log("warning", "deferred")>>
  /\ calls = <<>>

\* C11: a task of type 3 or of an unrecognised type never gets a
\* completion call and never gets a CompletionRecord
C11_IgnoredNeverCompleted ==
  /\ [](/\ \A j \in run.attempted : run.tasks[j].type \in {1, 2}
        /\ \A c \in Range(calls) :
             c.name = "completeTask" => run.tasks[c.task].type \in {1, 2}
        /\ \A p \in completed : remote.tasks[p[1]][p[2]].type \in {1, 2})
  /\ [][(op' = "processTask" /\ run.tasks[run.j].type \notin {1, 2}) =>
          /\ calls' = <<>>
          /\ completed' = completed
          /\ run'.pc = "task" /\ run'.j = run.j + 1]_vars

\* a list of a type 3 task and a task of unknown type was processed to
\* its end without any completion call
C11_Witness ==
  /\ RunEnded /\ run.fetched
  /\ Len(run.tasks) = 2
  /\ run.tasks[1].type = 3 /\ run.tasks[2].type = 4
  /\ run.classified = {1, 2} /\ run.attempted = {}

RetrySites == {"tasks1", "info1", "comp", "info2", "tasks2"}
ReplyLabel(site) ==
  CASE site = "tasks1" -> "replyTasks1"
    [] site = "info1" -> "replyInfo1"
    [] site = "comp" -> "replyComp"
    [] site = "info2" -> "replyInfo2"
    [] site = "tasks2" -> "replyTasks2"
    [] site = "draw" -> "replyDraw"
    [] OTHER -> "replyLogin"

\* the class of a reply: success, AuthExpired (the distinguished code),
\* ApiError (any other non-zero code) or Transport
ResponseClass(reply) ==
  CASE reply = "transport" -> "Transport"
    [] reply = "expired" -> "TOKEN_EXPIRED"
    [] reply = "apierr" -> "ApiError"
    [] OTHER -> "ok"

\* C12: when the retry that follows the refresh of a call site is
\* answered with success, exactly one refresh was made for that call and
\* the pipeline goes on with the successful result (list stored and
\* announced, tickets read, CompletionRecord written, next call issued)
C12_RetrySucceeds ==
  [][(run.pc \in RetrySites /\ run.retry /\ op' = ReplyLabel(run.pc)
      /\ run'.got = "ok") =>
       /\ run.refs = 1
       /\ \A c \in Range(calls') : c.name # "checkLogin"
       /\ run'.err = "none"
       /\ run.pc = "tasks1" =>
            /\ run'.fetched /\ run'.tasks = remote.tasks[run.uid]
            /\ tasksStore'[run.uid] = remote.tasks[run.uid]
            /\ events' = <<"tasksUpdated">>
            /\ run'.pc = "info1"
       /\ run.pc = "info1" =>
            IF remote.tickets[run.uid] > 0
              THEN run'.pc = "draw" /\ run'.lot = remote.tickets[run.uid]
              ELSE run'.pc = "task" /\ run'.j = 1
       /\ run.pc = "comp" =>
            /\ <<run.uid, run.j>> \in completed'
            /\ events' = <<"taskCompleted">>
            /\ run'.failed = run.failed
            /\ run'.pc = "task" /\ run'.j = run.j + 1
       /\ run.pc = "info2" => run'.pc = "tasks2"
       /\ run.pc = "tasks2" =>
            /\ tasksStore'[run.uid] = remote.tasks[run.uid]
            /\ run'.pc = "done"]_vars

\* the completion of task 1 succeeded on the retry that followed a
\* refresh (only that refresh leaves userData.token behind the store)
C12_Witness ==
  /\ op = "replyComp" /\ run.got = "ok"
  /\ <<run.uid, 1>> \in completed /\ 1 \notin run.failed
  /\ userStore[run.uid].token # run.tok
  /\ userStore[run.uid].token # NoToken

\* C13: a call site refreshes at most once and only after its first
\* attempt was answered AuthExpired; an ApiError or Transport answer to
\* the first attempt and any failing answer to the retry leave the call
\* site as that Error, without refresh or further call; a draw is never
\* followed by a refresh
C13_AtMostOneRetry ==
  /\ [](/\ run.refs <= 1
        /\ (run.pc \in {"login", "wait"} /\ run.site # "ensure") =>
             /\ run.site \in RetrySites
             /\ run.caught = "TOKEN_EXPIRED"
             /\ ~run.retry
             /\ run.refs = 1)
  /\ [][/\ (run.pc \in RetrySites /\ op' = ReplyLabel(run.pc)) =>
             LET res == ResponseClass(run'.got) IN
               /\ run'.pc = "login" => (res = "TOKEN_EXPIRED" /\ ~run.retry)
               /\ run'.pc # run.pc
               /\ (res # "ok" /\ (run.retry \/ res # "TOKEN_EXPIRED")) =>
                    /\ calls' = <<>>
                    /\ run'.err = res
                    /\ run'.site = "none" /\ run'.refs = 0
                    /\ run'.pc \in {"task", "done", "threw"}
        /\ op' = "replyDraw" => run'.pc \notin {"login", "wait"}]_vars

\* C14: refreshUserToken makes at most 3 checkLogin attempts, returns at
\* the first success, waits attempt * 2000 ms after a failed attempt that
\* is not the last, and after the third failure throws the Error of that
\* third attempt without waiting
C14_RefreshBounded ==
  /\ [](run.pc \in {"login", "wait"} => run.att \in 1 .. RefreshRetries)
  /\ [](run.pc = "wait" => run.att < RefreshRetries)
  /\ [][/\ op' = "replyLogin" =>
             IF LoginResult(run'.got) = "ok"
               THEN /\ run'.pc \notin {"login", "wait"}
                    /\ \A c \in Range(calls') : c.name # "checkLogin"
               ELSE /\ calls' = <<>>
                    /\ IF run.att < RefreshRetries
                         THEN /\ run'.pc = "wait"
                              /\ run'.wait = run.att * BackoffMs
                              /\ run'.att = run.att
                         ELSE /\ run'.pc \notin {"login", "wait"}
                              /\ run'.wait = 0
                              /\ run'.err = LoginResult(run'.got)
        /\ op' = "refreshWait" =>
             /\ run'.att = run.att + 1
             /\ Len(calls') = 1 /\ calls'[1].name = "checkLogin"]_vars

\* the third checkLogin attempt failed and its Error left
\* refreshUserToken and ended the run
C14_Witness ==
  /\ op = "replyLogin" /\ run.pc = "threw"
  /\ run.got \in {"apierr", "transport", "expired"}
  /\ run.err = LoginResult(run.got)

\* C15: a refresh that failed on all 3 attempts ends the run of the
\* account (no remote call is issued for it afterwards)
C15_ExhaustionEndsRun ==
  [][(op' = "replyLogin" /\ run.att = RefreshRetries
      /\ LoginResult(run'.got) # "ok") =>
       /\ RunEnded'
       /\ calls' = <<>>]_vars

\* C16: a successful refresh writes the record it read at the start of
\* the attempt, with the new token, before the call that depends on it is
\* issued with that token; every attempt reads the record from the store
\* and sends the stored token, not userData.token of the caller
C16_PersistBeforeUse ==
  [][/\ (op' = "replyLogin" /\ LoginResult(run'.got) = "ok") =>
          /\ userStore'[run.uid] =
               [run.snap EXCEPT !.present = TRUE,
                                !.token = LoginToken(run'.got, remote.issued)]
          /\ \A c \in Range(calls') :
               c.name # "checkLogin" /\ c.tok = userStore'[run.uid].token
     /\ \A c \in Range(calls') :
          c.name = "checkLogin" =>
            /\ c.tok = userStore[c.uid].token
            /\ run'.snap = userStore[c.uid]
            /\ userStore' = userStore]_vars

\* a refresh attempt sent the stored token while the run still held an
\* older one
C16_Witness ==
  /\ run.pc = "login"
  /\ Len(calls) = 1 /\ calls[1].name = "checkLogin"
  /\ calls[1].tok = userStore[run.uid].token
  /\ run.tok # NoToken /\ run.tok # userStore[run.uid].token

\* C17: a draw answered TOKEN_EXPIRED ends the draw loop: the task loop
\* starts, and no draw is issued from outside the loop or after such an
\* answer
C17_ExpiredDrawAborts ==
  [][/\ (op' = "replyDraw" /\ FetchResult(run'.got) = "TOKEN_EXPIRED") =>
          /\ calls' = <<>>
          /\ run'.pc = "task" /\ run'.j = 1
     /\ (\E c \in Range(calls') : c.name = "drawPrize") =>
          \/ op' = "replyInfo1"
          \/ op' = "replyLogin" /\ run.site = "info1"
          \/ op' = "replyDraw" /\ FetchResult(run'.got) # "TOKEN_EXPIRED"]_vars

\* with 3 tickets, draw 2 was answered TOKEN_EXPIRED and the task loop
\* started without draw 3
C17_Witness ==
  /\ op = "replyDraw" /\ run.got = "expired"
  /\ remote.tickets[run.uid] = 3
  /\ logs = <<DrawLog("warning", "drawExpired", 2)>>
  /\ run.pc = "task" /\ calls = <<>>

C19_DrawPerTicket ==
  /\ [](run.pc = "draw" =>
          /\ run.lot = remote.tickets[run.uid]
          /\ run.k \in 1 .. run.lot
          /\ Len(calls) = 1 /\ calls[1].name = "drawPrize")
  /\ [][/\ (op' = "replyDraw"
            /\ FetchResult(run'.got) \in {"ApiError", "Transport"}) =>
             /\ logs'[1] = DrawLog("error", "drawFailed", run.k)
             /\ IF run.k < run.lot
                  THEN run'.pc = "draw" /\ run'.k = run.k + 1
                  ELSE run'.pc = "task" /\ calls' = <<>>
        /\ (\E c \in Range(calls') : c.name = "drawPrize") =>
             /\ Len(calls') = 1
             /\ run'.k = run.k + 1
             /\ run'.k <= remote.tickets[run.uid]
        /\ (op' = "replyDraw" /\ run'.pc # "draw"
            /\ FetchResult(run'.got) # "TOKEN_EXPIRED") =>
             run.k = remote.tickets[run.uid]]_vars

\* draw 1 failed without TOKEN_EXPIRED, was logged, and draw 2 was issued
C19_Witness ==
  /\ op = "replyDraw" /\ run.got = "transport"
  /\ run.pc = "draw" /\ run.k = 2
  /\ logs = <<DrawLog("error", "drawFailed", 1), DrawLog("info", "drawing", 2)>>

\* C20: a run that finds no token in the stored record starts with a
\* refresh and issues nothing but checkLogin until it has returned; when
\* the refresh returns a record without token the run ends, and a run
\* that has ended issues no call
C20_EnsureToken ==
  /\ [](run.site = "ensure" =>
          /\ ~run.fetched
          /\ \A c \in Range(calls) : c.name = "checkLogin")
  /\ [][/\ (op' = "runStart" /\ userStore[run.uid].token = NoToken) =>
             /\ calls' = <<Call("checkLogin", run.uid, NoToken, 0)>>
             /\ run'.pc = "login" /\ run'.site = "ensure"
        /\ (op' = "replyLogin" /\ run.site = "ensure"
            /\ LoginResult(run'.got) = "ok") =>
             IF userStore'[run.uid].token = NoToken
               THEN RunEnded' /\ calls' = <<>>
               ELSE calls' = <<Call("getActivityTasks", run.uid,
                                    userStore'[run.uid].token, 0)>>
        /\ RunEnded => calls' = <<>>]_vars

\* the refresh of a run that started without token returned a record
\* with an empty token and the run ended before any other call
C20_Witness ==
  /\ op = "replyLogin" /\ run.got = "empty"
  /\ run.pc = "threw" /\ run.err = "Error"
  /\ ~run.fetched /\ calls = <<>>

\* the remote operation a step invokes, "none" when it invokes none
Invoked == IF calls = <<>> THEN "none" ELSE calls[1].name

\* C21: the first fetch of the task list is invoked once per run, and
\* once more only as the retry that follows the refresh made for its
\* AuthExpired answer; on success the list is stored and one tasksUpdated
\* event is published while no draw or completion call has been made
\* yet; when the fetch fails the run ends with no task processed and no
\* completion call issued
C21_FetchOnce ==
  /\ [][(Invoked' = "getActivityTasks" /\ run'.pc = "tasks1") =>
          /\ ~run.fetched /\ run.attempted = {} /\ run.classified = {}
          /\ IF run'.retry
               THEN /\ op' = "replyLogin" /\ run.site = "tasks1"
                    /\ run.caught = "TOKEN_EXPIRED" /\ run.refs = 1
               ELSE \/ op' = "runStart"
                    \/ op' = "replyLogin" /\ run.site = "ensure"]_vars
  /\ [][(op' = "replyTasks1" /\ run.retry) =>
          /\ Invoked' \notin {"getActivityTasks", "checkLogin"}
          /\ run'.pc \notin {"tasks1", "login", "wait"}]_vars
  /\ [][(op' = "replyTasks1" /\ run'.got = "ok") =>
          /\ tasksStore'[run.uid] = remote.tasks[run.uid]
          /\ events' = <<"tasksUpdated">>
          /\ run'.fetched /\ run'.tasks = remote.tasks[run.uid]
          /\ Invoked' = "getUserInfo"]_vars
  /\ [][Invoked' \in {"drawPrize", "completeTask"} => run.fetched]_vars
  /\ [][(~run'.fetched /\ run.pc \in {"tasks1", "login"}
         /\ run'.pc \notin {"tasks1", "login", "wait"}) =>
          /\ RunEnded' /\ calls' = <<>> /\ events' = <<>>
          /\ UNCHANGED <<tasksStore, completed>>]_vars
  /\ [](~run.fetched =>
          /\ run.classified = {} /\ run.attempted = {}
          /\ Invoked \notin {"drawPrize", "completeTask"})

\* the fetch succeeded: the list is stored and announced, and
\* the next call is the user-info fetch
C21_Witness ==
  /\ op = "replyTasks1" /\ run.got = "ok" /\ run.fetched
  /\ events = <<"tasksUpdated">> /\ Invoked = "getUserInfo"
  /\ tasksStore[run.uid] = run.tasks /\ run.attempted = {}

\* the run is in the refresh block that follows the task loop
InFinalRefetch(r) ==
  \/ r.pc \in {"info2", "tasks2"}
  \/ r.pc \in {"login", "wait"} /\ r.site \in {"info2", "tasks2"}

\* C22: after the task loop user info and task list are each fetched
\* once, and once more only as the retry that follows the refresh made
\* for an AuthExpired answer; when this block fails the run ends normally
\* with one warning entry, and the completions made before it are
\* neither undone nor repeated
C22_FinalRefetchWarns ==
  /\ [][(Invoked' = "getUserInfo" /\ run'.pc = "info2") =>
          IF run'.retry
            THEN /\ op' = "replyLogin" /\ run.site = "info2"
                 /\ run.caught = "TOKEN_EXPIRED" /\ run.refs = 1
            ELSE op' = "afterTasks" /\ run.j > Len(run.tasks)]_vars
  /\ [][(Invoked' = "getActivityTasks" /\ run'.pc = "tasks2") =>
          IF run'.retry
            THEN /\ op' = "replyLogin" /\ run.site = "tasks2"
                 /\ run.caught = "TOKEN_EXPIRED" /\ run.refs = 1
            ELSE op' = "replyInfo2" /\ run'.got = "ok"]_vars
  /\ [][(op' \in {"replyInfo2", "replyTasks2"} /\ run.retry) =>
          Invoked' \notin {"getUserInfo", "checkLogin"} /\ run'.pc # "login"]_vars
  /\ [][InFinalRefetch(run) =>
          /\ UNCHANGED completed
          /\ run'.attempted = run.attempted /\ run'.failed = run.failed
          /\ Invoked' # "completeTask"
          /\ InFinalRefetch(run') \/ run'.pc = "done"]_vars
  /\ [][(InFinalRefetch(run) /\ ~InFinalRefetch(run')
         /\ ~(op' = "replyTasks2" /\ run'.got = "ok")) =>
          /\ run'.pc = "done" /\ run'.err # "none"
          /\ logs' = <<Log("warning", "refreshFailed")>>
          /\ calls' = <<>> /\ events' = <<>>
          /\ UNCHANGED <<tasksStore, completed>>]_vars

\* the re-fetch of the task list failed after a completion: the run
\* ended normally and the CompletionRecord is still there
C22_Witness ==
  /\ op = "replyTasks2" /\ run.got = "transport" /\ run.pc = "done"
  /\ logs = <<Log("warning", "refreshFailed")>>
  /\ <<run.uid, 1>> \in completed /\ 1 \in run.attempted

\* an Error leaves the token check or the first fetch of the task list:
\* no catch inside the try of executeDailySignIn takes it
ReachesTopLevel ==
  /\ run.pc \in {"tasks1", "login"} /\ ~run'.fetched
  /\ run'.pc \notin {"tasks1", "login", "wait"}

\* C23: when AuthExpired reaches the top level of an account run the run
\* ends and a warning-type system log entry is emitted for the account;
\* when any other Error reaches it the run ends and an error-type entry
\* is emitted (by the run, or by the batch loop right after it)
C23_TopLevelLogs ==
  /\ [][ReachesTopLevel =>
          /\ RunEnded'
          /\ run'.err = "TOKEN_EXPIRED" =>
               \E e \in Range(logs') : e.type = "warning"]_vars
  /\ [][(RunEnded /\ ~run.fetched /\ run.err \notin {"none", "TOKEN_EXPIRED"}
         /\ run' # run) =>
          \E e \in Range(logs) \cup Range(logs') : e.type = "error"]_vars

\* C27: a CompletionRecord is written exactly by the step that receives
\* result code 0 for the completion call of that task; an answer with
\* another application code, like AuthExpired and Transport, writes no
\* CompletionRecord and publishes no taskCompleted event
C27_RecordIffSuccess ==
  /\ [][op' = "replyComp" =>
          IF ResponseClass(run'.got) = "ok"
            THEN /\ completed' = completed \cup {<<run.uid, run.j>>}
                 /\ events' = <<"taskCompleted">>
            ELSE /\ UNCHANGED completed
                 /\ events' = <<>>
                 /\ run'.pc \in {"login", "task"}
                 /\ run'.pc = "task" => run.j \in run'.failed]_vars
  /\ [][completed' # completed => op' = "replyComp"]_vars

\* no remote call of the workload has failed so far
AllSucceeded == faults = MaxFaults

\* C24: for an account without a token whose fetched list holds a
\* sign-in task and a progress task at 90/90, when every remote call
\* succeeds, the run issues one completion call per task and no other,
\* ends with exactly the two CompletionRecords written, and its last
\* step publishes tasksUpdated followed by userInfoUpdated
C24_EndToEnd ==
  /\ [][(Invoked' = "completeTask" /\ AllSucceeded') =>
          /\ calls'[1].task \notin run.attempted
          /\ ~run'.retry
          /\ calls'[1].tok = userStore[run.uid].token
          /\ calls'[1].tok # NoToken]_vars
  /\ []((RunEnded /\ AllSucceeded) =>
          /\ run.pc = "done" /\ run.err = "none"
          /\ run.attempted = {1, 2} /\ run.failed = {}
          /\ completed = {<<run.uid, 1>>, <<run.uid, 2>>}
          /\ events = <<"tasksUpdated", "userInfoUpdated">>
          /\ tasksStore[run.uid] = EndToEndTasks)

\* the run is over and no remote call failed
C24_Witness ==
  /\ op = "replyTasks2" /\ run.pc = "done" /\ AllSucceeded
  /\ Cardinality(completed) = 2 /\ run.attempted = {1, 2}
  /\ events = <<"tasksUpdated", "userInfoUpdated">>
  /\ userStore[run.uid].token # NoToken

\* an executeDailySignIn call is suspended at one of its awaits
RunInFlight == run.pc \notin {"none", "done", "threw"}

\* C26: stop() leaves the batch loop and the account pipeline in
\* progress as they are, and a pipeline in progress can take its next
\* step whether or not the scheduler has been stopped, up to its end
C26_StopDoesNotInterrupt ==
  /\ [][op' \in StopLabels => UNCHANGED <<batch, run>>]_vars
  /\ []((RunInFlight /\ ~isRunning) =>
          /\ batch.phase = "loop"
          /\ ENABLED (RunNext /\ run'.uid = run.uid /\ UNCHANGED batch))

\* stop() was called during a batch and the pipeline in progress went
\* on to its normal end, completing the task after the stop
C26_Witness ==
  /\ ~isRunning /\ batch.phase = "loop"
  /\ op = "replyTasks2" /\ run.pc = "done"
  /\ <<run.uid, 1>> \in completed

\* entries are stamped in call order: newest first is strictly
\* decreasing stamps
NewestFirst(l) == \A i \in 1 .. (Len(l) - 1) : l[i] > l[i + 1]

\* C25: the stored system log never holds more than 100 entries and is
\* ordered newest first; the write of an addSystemLog call stores the
\* array the call read with its entry put at the head and, when that
\* makes more than 100 entries, without the oldest entry at the tail
C25_LogCapped ==
  /\ [](Len(sysLog.stored) <= LogCap /\ NewestFirst(sysLog.stored))
  /\ [][op' = "logWrite" =>
          LET c == Head(sysLog.pending)
              n == Len(c.logArray)
          IN /\ Head(sysLog'.stored) = c.id
             /\ Tail(sysLog'.stored) =
                  IF n < LogCap THEN c.logArray
                                ELSE SubSeq(c.logArray, 1, n - 1)]_vars

\* a write on a full log: 100 entries before and after, the entry at the
\* head, the oldest one gone
C25_Witness ==
  /\ op = "logWrite" /\ Len(sysLog.stored) = LogCap
  /\ Head(sysLog.stored) > LogCap
  /\ sysLog.stored[LogCap] > 1

\* C28: a completion call is issued for a task that is CompleteNow
\* whether or not a CompletionRecord for it exists: the task loop issues
\* it for every such task of the fetched list, and the complete route
\* issues it for every task it finds in the stored list
C28_AtLeastOnce ==
  /\ [][(op' = "processTask"
         /\ Classify(run.tasks[run.j]) = "CompleteNow") =>
          /\ Invoked' = "completeTask"
          /\ calls'[1].uid = run.uid /\ calls'[1].task = run.j]_vars
  /\ [][(op' = "manualComplete" /\ userStore[manual'.uid].present
         /\ manual'.task <= Len(tasksStore[manual'.uid])) =>
          /\ Invoked' = "completeTask"
          /\ calls'[1].uid = manual'.uid /\ calls'[1].task = manual'.task]_vars

\* a request to the complete route, after the scheduled run completed
\* the same task and wrote its CompletionRecord, issues the call again
C28_Witness ==
  /\ op = "manualComplete" /\ Invoked = "completeTask"
  /\ <<calls[1].uid, calls[1].task>> \in completed
  /\ Classify(tasksStore[calls[1].uid][calls[1].task]) = "CompleteNow"

\* C29: a refresh made by the refresh-token route and one made by the
\* scheduled run may overlap between reading and writing the record; each
\* writes the record it read with the token it received, whatever the
\* store holds by then, and is answered as a success; the record in the
\* store is always the one written last, even when its token was issued
\* before the token of the record it replaces
C29_LastWriteWins ==
  /\ [][(op' = "manualLoginReply" /\ LoginResult(manual.reply) = "ok") =>
          /\ userStore'[manual.uid] =
               [manual.snap EXCEPT !.present = TRUE, !.token = manual.tok]
          /\ manual.route = "refresh" => manual'.status = 200]_vars
  /\ [][(op' = "replyLogin" /\ LoginResult(run'.got) = "ok") =>
          /\ userStore'[run.uid] =
               [run.snap EXCEPT !.present = TRUE,
                                !.token = LoginToken(run'.got, remote.issued)]
          /\ run'.pc # "wait" /\ run'.lastError = "none"]_vars
  /\ [][userStore' # userStore =>
          op' \in {"manualLoginReply", "replyLogin"}]_vars

\* the route read the record and was issued its token before the
\* scheduled refresh, and wrote after it: the token of the record is
\* older than the one the run goes on with
C29_Witness ==
  /\ op = "manualLoginReply" /\ manual.status = 200
  /\ manual.route = "refresh" /\ manual.uid = run.uid
  /\ run.tok = remote.issued
  /\ userStore[run.uid].token # NoToken
  /\ userStore[run.uid].token < run.tok

\* C30: publishing an event returns to the pipeline whether the event
\* is delivered, lost or fails: the step that receives a successful
\* completion writes the CompletionRecord and goes on to the next task,
\* the steps that receive the task list store it and go on, and a change
\* of the client leaves the run, the store and the calls untouched
C30_EventsDoNotAffectCore ==
  /\ [][(op' = "replyComp" /\ CompleteResult(run'.got) = "ok") =>
          /\ events' = <<"taskCompleted">>
          /\ completed' = completed \cup {<<run.uid, run.j>>}
          /\ run'.pc = "task" /\ run'.j = run.j + 1
          /\ run'.failed = run.failed /\ run'.err = "none"]_vars
  /\ [][(op' = "replyTasks1" /\ run'.got = "ok") =>
          /\ events' = <<"tasksUpdated">>
          /\ tasksStore'[run.uid] = remote.tasks[run.uid]
          /\ Invoked' = "getUserInfo"]_vars
  /\ [][(op' = "replyTasks2" /\ run'.got = "ok") =>
          /\ events' = <<"tasksUpdated", "userInfoUpdated">>
          /\ tasksStore'[run.uid] = remote.tasks[run.uid]
          /\ run'.pc = "done" /\ run'.err = "none"
          /\ logs' = <<Log("success", "refreshed")>>]_vars
  /\ [][op' = "clientChange" => UNCHANGED <<run, batch, storeVars, remote,
                                            faults>>]_vars
  /\ [](RunInFlight => ENABLED (RunNext /\ UNCHANGED wsClients))

\* the taskCompleted event of a completion failed on a broken client,
\* and the CompletionRecord was written
C30_Witness ==
  /\ op = "replyComp" /\ events = <<"taskCompleted">>
  /\ Delivery(wsClients) = "failed"
  /\ <<run.uid, 1>> \in completed /\ run.pc = "task" /\ run.j = 2

\* C31: isRunning changes only in a step of start() or stop(): a timer
\* callback, a step of an account run or of a token refresh, a failed
\* remote call and the catch of the batch loop all leave it as the last
\* start() or stop() set it
C31_FlagOnlyByStartStop ==
  /\ [][isRunning' # isRunning => op' \in {"start"} \cup StopLabels]_vars
  /\ [][op' = "start" => isRunning']_vars
  /\ [][op' \in StopLabels => ~isRunning']_vars

\* an account run threw into the batch loop and the scheduler is still
\* Running
C31_Witness ==
  /\ op \in {"batchNext", "firstFinish", "secondFinish"}
  /\ logs # <<>> /\ logs[1] = Log("error", "runFailed")
  /\ isRunning

\* C33: whenever the scheduler is Stopped the jobs map is empty
C33_StoppedNoJobs == ~isRunning => JobsEmpty(jobs)

\* C34: a delayed first run that was pending when stop() was called
\* never starts a batch afterwards, whether or not start() was called
\* again before its delay elapsed
C34_PendingNeverRuns ==
  [][(op' = "firstRunFire" /\ (batch' # batch \/ overlap' # overlap)) =>
       \E i \in 1 .. Len(timeouts) :
         /\ timeouts[i] <= now /\ ~atStop[i]
         /\ timeouts' = RemoveAt(timeouts, i)
         /\ atStop' = RemoveAt(atStop, i)]_vars

\* C37: executeDailySignIn never throws to its caller: whatever fails in
\* it, the call returns normally
C37_NeverPropagates == run.pc # "threw"

\* C35: every remote call of an account run other than the login check
\* carries the token of the latest refresh of the run (the token of the
\* stored record), also after a refresh made inside a completion call
C35_CallsCarryRefreshedToken ==
  [][(Invoked' \notin {"none", "checkLogin"} /\ RunInFlight') =>
       calls'[1].tok = userStore'[run'.uid].token]_vars

\* C36: no system log entry is lost: once no addSystemLog call is in
\* flight the stored log holds the entries of the latest calls, up to
\* 100 of them, newest first
C36_NoLogEntryLost ==
  sysLog.pending = <<>> =>
    sysLog.stored = [i \in 1 .. (IF sysLog.seq < LogCap THEN sysLog.seq
                                                        ELSE LogCap)
                       |-> sysLog.seq - i + 1]

\* C40: a failed refresh leaves the store untouched: the account records
\* are written only by an attempt whose login check succeeded, every
\* attempt of a refresh reads the record the attempt before it read, and
\* when the last attempt fails the record is the one that attempt read
C40_FailedRefreshWritesNothing ==
  /\ [][userStore' # userStore =>
          op' = "replyLogin" /\ LoginResult(run'.got) = "ok"]_vars
  /\ [][op' = "refreshWait" => run'.snap = run.snap]_vars
  /\ [][(op' = "replyLogin" /\ LoginResult(run'.got) # "ok"
           /\ run.att = RefreshRetries) =>
          userStore'[run.uid] = run.snap]_vars
C40_Witness ==
  /\ op = "replyLogin" /\ LoginResult(run.got) # "ok"
  /\ run.pc # "wait" /\ faults <= MaxFaults - RefreshRetries
  /\ userStore[1].token # NoToken

\* C39: a first execution that has started eventually finishes and
\* registers the second execution, whatever fails on the way, provided
\* every call it waits for returns
C39_BatchFinishes ==
  (batch.phase # "idle" /\ batch.exec = 1) ~>
     (batch.phase = "idle" /\ op = "firstFinish"
        /\ jobs["secondExecution"] # NoJob)

\* a first execution that spent the whole fault budget, and whose last
\* account run threw, finished and registered the second execution
C39_Witness ==
  /\ batch.phase = "idle" /\ op = "firstFinish"
  /\ jobs["secondExecution"] # NoJob
  /\ faults = 0 /\ logs[1] = Log("error", "runFailed")

\* the store holds nothing of account u
Cleared(u) ==
  /\ userStore[u] = NoRecord
  /\ tasksStore[u] = <<>> /\ ~fetchedAt[u]
  /\ \A j \in 1 .. MaxTasks : <<u, j>> \notin completed
  /\ \A i \in 1 .. Len(configUsers) : configUsers[i].uid # u

\* C32: when the delete route responds, the store holds no record, no
\* task list, no fetch timestamp and no completion marker of the account,
\* and the account list does not hold its uid
C32_DeleteCascades ==
  [][op' = "deleteRespond" => Cleared(manual.uid)']_vars

\* the delete route answered its latest request with success
Deleted(u) ==
  manual.pc = "none" /\ manual.route = "delete" /\ manual.uid = u
    /\ manual.status = 200

\* C38: once the delete route has responded for an account, no step of a
\* run or refresh that was in flight writes its record, its task list or
\* a completion marker of it
C38_NotResurrected ==
  [][\A u \in Uids :
       Deleted(u) =>
         /\ userStore'[u] = userStore[u]
         /\ tasksStore'[u] = tasksStore[u]
         /\ \A j \in 1 .. MaxTasks :
              <<u, j>> \in completed' <=> <<u, j>> \in completed]_vars

====
